---------------------------- MODULE Spec2Model ----------------------------
(***************************************************************************)
(* State-machine model of the blog backend in src/app.py: the four tables  *)
(* (user, post, post_image, comment), the media store, and one action per  *)
(* request handler.  Each action is one whole request: the handler's       *)
(* checks, its uploads and file removals, and its commit or rollback.      *)
(*                                                                         *)
(* Encodings.  A row is a record.  An absent integer (Python None, SQL     *)
(* NULL) is 0, primary keys start at 1.  An absent string is NoStr.        *)
(* A URL is an integer: n > 0 is the local path /static/uploads/<n>,       *)
(* n < 0 is an https URL of the hosted store, 0 is None.                   *)
(* Timestamps (created_at, updated_at) are not modelled.                   *)
(***************************************************************************)
EXTENDS Integers, Sequences, FiniteSets

\* Bounds of the model: posts and comments that exist at once, uploads stored.
MaxPosts == 2
MaxComments == 1
MaxFiles == 2
\* Requests served in one behaviour.
MaxRequests == 4

NoStr == "<none>"

Usernames == {"alice", "bob"}
Passwords == {"pw1", "pw2"}

VARIABLES
    backend,    \* "sqlite" or "postgresql": what db_url selects at start-up
    cloud,      \* whether CLOUDINARY_CLOUD_NAME is set
    users,      \* table user:       [id, username, password]
    posts,      \* table post:       [id, title, content, image_url, user_id]
    images,     \* table post_image: [id, url, post_id]
    comments,   \* table comment:    [id, text, user_id, post_id]
    files,      \* URLs whose file is present in the media store
    nextFile,   \* number of uploads stored so far (names are timestamps)
    last,       \* the last request handled and its response
    served,     \* number of requests handled so far
    idle        \* whether the last request left tables and files as they were

vars == <<backend, cloud, users, posts, images, comments, files, nextFile, last, served, idle>>

db == <<users, posts, images, comments>>

----------------------------------------------------------------------------
\* Helpers

Max(S) == IF S = {} THEN 0 ELSE CHOOSE x \in S : \A y \in S : y <= x

Ids(rows) == {r.id : r \in rows}

\* Foreign keys are declared on the models, but only postgresql enforces
\* them: the sqlite connection is opened without PRAGMA foreign_keys=ON.
fkEnforced == backend = "postgresql"

\* The primary key the backend gives the next row of a table: one more than
\* the largest key in use (sqlite's INTEGER PRIMARY KEY; a postgresql
\* sequence gives keys that differ from every key in use just the same).
NextId(rows) == Max(Ids(rows)) + 1

\* generate_password_hash / check_password_hash (the salt is not modelled).
generate_password_hash(pw) == <<"pbkdf2", pw>>

check_password_hash(h, pw) == h = generate_password_hash(pw)

\* The constraints the backend checks when rows are written.
ConstraintsOk(us, ps, is, cs) ==
    /\ \A u \in us : u.username # NoStr /\ u.password # NoStr
    /\ \A u1 \in us, u2 \in us : u1.username = u2.username => u1 = u2
    /\ \A p \in ps : p.title # NoStr /\ p.content # NoStr /\ p.user_id # 0
    /\ \A i \in is : i.url # 0 /\ i.post_id # 0
    /\ \A c \in cs : c.text # NoStr /\ c.user_id # 0 /\ c.post_id # 0
    /\ fkEnforced =>
        /\ \A p \in ps : p.user_id \in Ids(us)
        /\ \A i \in is : i.post_id \in Ids(ps)
        /\ \A c \in cs : c.user_id \in Ids(us) /\ c.post_id \in Ids(ps)

\* The record of a request: the handler (op), the HTTP status answered, the
\* id in the URL, the user_id sent, and, as far as the properties read them,
\* the other fields of the request (name, pw, title, ids, badIds, nfiles),
\* the URLs the media store returned for the gallery (stored), the key of
\* the row created (newId), whether the commit raised (fault), and how many
\* images and comments the request deleted (gone).
Response(op, status, id, uid) ==
    [op |-> op, status |-> status, id |-> id, uid |-> uid,
     name |-> NoStr, pw |-> NoStr, title |-> NoStr, ids |-> {}, badIds |-> FALSE,
     nfiles |-> 0, stored |-> {}, newId |-> 0, fault |-> FALSE, gone |-> <<0, 0>>]

\* What a request that writes nothing leaves alone.
Unwritten == UNCHANGED <<backend, cloud, users, posts, images, comments, files, nextFile>>

----------------------------------------------------------------------------
Init ==
    /\ backend \in {"sqlite", "postgresql"}
    /\ cloud \in BOOLEAN
    /\ users = {}
    /\ posts = {}
    /\ images = {}
    /\ comments = {}
    /\ files = {}
    /\ nextFile = 0
    /\ last = Response("none", 0, 0, 0)
    /\ served = 0
    /\ idle = FALSE

----------------------------------------------------------------------------
\* POST /api/register.  fault: the commit raises.
\* UserExists without the lookup: register goes straight to the insert.
UserExists_NoLookup(username) == FALSE

UserExists(username) == \E u \in users : u.username = username

register(username, password, fault) ==
    LET new_user == [id |-> NextId(users), username |-> username,
                     password |-> generate_password_hash(password)]
        committed == ~fault /\ ConstraintsOk(users \cup {new_user}, posts, images, comments)
    IN
    IF UserExists(username)
    THEN /\ last' = [Response("register", 400, 0, 0)
                       EXCEPT !.name = username, !.pw = password]
         /\ Unwritten
    ELSE /\ users' = IF committed THEN users \cup {new_user} ELSE users
         /\ last' = [Response("register", IF committed THEN 201 ELSE 500, 0, 0)
                       EXCEPT !.name = username, !.pw = password, !.fault = fault]
         /\ UNCHANGED <<backend, cloud, posts, images, comments, files, nextFile>>

\* POST /api/login
login(username, password) ==
    LET found == {u \in users : u.username = username} IN
    /\ last' = [Response("login",
                         IF \E u \in found : check_password_hash(u.password, password)
                         THEN 200 ELSE 401, 0, 0)
                  EXCEPT !.name = username, !.pw = password]
    /\ Unwritten

\* GET /api/posts/<post_id>: get_or_404 runs inside the handler's
\* try/except Exception, and the NotFound it raises is an Exception, so the
\* handler answers a missing id with its own 500.
get_post_detail(post_id) ==
    /\ last' = Response("get_post_detail",
                        IF post_id \in Ids(posts) THEN 200 ELSE 500, post_id, 0)
    /\ Unwritten

----------------------------------------------------------------------------
\* Media store

\* smart_upload(file) when n uploads were stored before: None for a missing
\* file or an empty filename, else the URL of the stored file.
smart_upload(file, n) ==
    IF file # "file" THEN 0 ELSE IF cloud THEN 0 - (n + 1) ELSE n + 1

\* The URLs smart_upload returns for a request's file entries, in order.
RECURSIVE UploadAll(_, _)
UploadAll(entries, n) ==
    IF entries = <<>> THEN <<>>
    ELSE LET url == smart_upload(Head(entries), n) IN
         <<url>> \o UploadAll(Tail(entries), IF url # 0 THEN n + 1 ELSE n)

\* How many of urls[1..i] are stored files.
Rank(urls, i) == Cardinality({j \in 1..i : urls[j] # 0})

\* The files stored before the k-th upload raised (k = 0: none raised).
StoredBefore(urls, k) ==
    {urls[i] : i \in {j \in DOMAIN urls : urls[j] # 0 /\ (k = 0 \/ Rank(urls, j) < k)}}

\* remove_physical_file(url): deletes the file of a local URL, leaves
\* None and http URLs alone.
remove_physical_file(url, fs) ==
    IF url = 0 \/ url < 0 THEN fs ELSE fs \ {url}

\* The loop "for img in images_to_del: remove_physical_file(img.url)".
RemoveFiles(rows, fs) ==
    {f \in fs : \A r \in rows : f \in remove_physical_file(r.url, {f})}

\* GalleryRows keeping only the first stored file of the gallery.
GalleryRows_FirstOnly(urls, pid, base) ==
    {[id |-> base, url |-> urls[i], post_id |-> pid] :
        i \in {j \in DOMAIN urls : urls[j] # 0 /\ Cardinality({k \in 1..j : urls[k] # 0}) = 1}}

\* One PostImage row per URL that is not None, keys in insertion order.
GalleryRows(urls, pid, base) ==
    {[id |-> base + Rank(urls, i) - 1, url |-> urls[i], post_id |-> pid] :
        i \in {j \in DOMAIN urls : urls[j] # 0}}

FileEntries == {"empty", "file"}

NFiles(entries) == Cardinality({i \in DOMAIN entries : entries[i] = "file"})

\* The file lists a request may carry with f uploads already stored: up to
\* two entries.
GalleryInputs(f) ==
    {g \in UNION {[1..n -> FileEntries] : n \in 0..2} : f + NFiles(g) <= MaxFiles}

\* The outcomes the environment may give a request with n files to store:
\* <<k, FALSE>>, the k-th upload raises; <<0, TRUE>>, the commit raises;
\* <<0, FALSE>>, neither.
Outcomes(n) == {<<k, FALSE>> : k \in 0..n} \cup {<<0, TRUE>>}

----------------------------------------------------------------------------
\* POST /api/posts.  failAt = k > 0: the k-th upload raises; fault: the
\* commit raises.  Either way the handler's except rolls back and answers 500.
create_post(title, content, user_id, cover, gallery, failAt, fault) ==
    LET urls == UploadAll(<<cover>> \o gallery, nextFile)
        stored == StoredBefore(urls, failAt)
        pid == NextId(posts)
        new_post == [id |-> pid, title |-> title, content |-> content,
                     image_url |-> urls[1], user_id |-> user_id]
        gurls == SubSeq(urls, 2, Len(urls))
        new_images == GalleryRows(gurls, pid, NextId(images))
        committed == /\ failAt = 0
                     /\ ~fault
                     /\ ConstraintsOk(users, posts \cup {new_post},
                                      images \cup new_images, comments)
    IN
    /\ Cardinality(posts) < MaxPosts
    /\ files' = files \cup stored
    /\ nextFile' = nextFile + Cardinality(stored)
    /\ posts' = IF committed THEN posts \cup {new_post} ELSE posts
    /\ images' = IF committed THEN images \cup new_images ELSE images
    /\ last' = [Response("create_post", IF committed THEN 201 ELSE 500, 0, user_id)
                  EXCEPT !.nfiles = NFiles(gallery),
                         !.stored = StoredBefore(gurls, 0),
                         !.newId = IF committed THEN pid ELSE 0,
                         !.fault = fault]
    /\ UNCHANGED <<backend, cloud, users, comments>>

\* IsOwner letting a request without user_id through.
IsOwner_AbsentPasses(user_id, post) == user_id = 0 \/ user_id = post.user_id

\* The permission check of update_post and delete_post.
IsOwner(user_id, post) == user_id = post.user_id

\* The rows db.session.delete(post) removes besides the post: through
\* cascade="all, delete-orphan", its images and its comments.
CascadeImages(post) == {i \in images : i.post_id = post.id}

\* CascadeComments without the cascade on Post.comments.
CascadeComments_None(post) == {}

CascadeComments(post) == {c \in comments : c.post_id = post.id}

\* DELETE /api/posts/<post_id>?user_id=
delete_post(post_id, user_id, fault) ==
    IF post_id \notin Ids(posts)
    THEN /\ last' = Response("delete_post", 404, post_id, user_id)
         /\ Unwritten
    ELSE LET post == CHOOSE p \in posts : p.id = post_id
             ps == posts \ {post}
             is == images \ CascadeImages(post)
             cs == comments \ CascadeComments(post)
             committed == ~fault /\ ConstraintsOk(users, ps, is, cs)
         IN
         IF ~IsOwner(user_id, post)
         THEN /\ last' = Response("delete_post", 403, post_id, user_id)
              /\ Unwritten
         ELSE /\ posts' = IF committed THEN ps ELSE posts
              /\ images' = IF committed THEN is ELSE images
              /\ comments' = IF committed THEN cs ELSE comments
              /\ last' = [Response("delete_post", IF committed THEN 200 ELSE 500,
                                   post_id, user_id)
                            EXCEPT !.fault = fault,
                                   !.gone = IF committed
                                            THEN <<Cardinality(images \ is),
                                                   Cardinality(comments \ cs)>>
                                            ELSE <<0, 0>>]
              /\ UNCHANGED <<backend, cloud, users, files, nextFile>>

\* UpdatedPost losing the new title.
UpdatedPost_TitleLost(post, title, content, delete_cover, coverUrl) ==
    [post EXCEPT
       !.content = IF content = NoStr THEN @ ELSE content,
       !.image_url = IF coverUrl # 0 THEN coverUrl
                     ELSE IF delete_cover THEN 0 ELSE @]

\* Steps 1 and 2 of update_post: the fields of the post after the request's
\* title, content, delete_cover and cover file were applied.  coverUrl is
\* what smart_upload returned for the cover file (0 when none was sent).
UpdatedPost(post, title, content, delete_cover, coverUrl) ==
    [post EXCEPT
       !.title = IF title = NoStr THEN @ ELSE title,
       !.content = IF content = NoStr THEN @ ELSE content,
       !.image_url = IF coverUrl # 0 THEN coverUrl
                     ELSE IF delete_cover THEN 0 ELSE @]

\* images_to_del without the filter on post_id.
images_to_del_AnyPost(post, ids) == {i \in images : i.id \in ids}

\* Step 3 of update_post: the rows the query selects for a parsed id list.
images_to_del(post, ids) ==
    {i \in images : i.id \in ids /\ i.post_id = post.id}

\* The body of update_post after the permission check.  badIds: json.loads
\* raises on delete_image_ids (malformed JSON), which the inner except
\* swallows; ids: the list of integers it returns otherwise (the keys in
\* use and one that is not).
\* failAt = k > 0: the k-th upload raises (outside any try: the request ends
\* with a 500 and the session is discarded).  fault: the commit raises.
UpdateOwned(post, user_id, title, content, delete_cover, cover, badIds, ids, gallery, failAt, fault) ==
    LET coverUrl == smart_upload(cover, nextFile)
        nCover == IF coverUrl # 0 THEN 1 ELSE 0
        coverFailed == failAt = 1 /\ nCover = 1
        new_post == UpdatedPost(post, title, content, delete_cover, coverUrl)
        dels == IF badIds THEN {} ELSE images_to_del(post, ids)
        gurls == UploadAll(gallery, nextFile + nCover)
        gstored == IF failAt = 0 THEN StoredBefore(gurls, 0)
                   ELSE StoredBefore(gurls, failAt - nCover)
        new_images == GalleryRows(gurls, post.id, NextId(images))
        ps == (posts \ {post}) \cup {new_post}
        is == (images \ dels) \cup new_images
        committed == failAt = 0 /\ ~fault /\ ConstraintsOk(users, ps, is, comments)
        stored == IF coverFailed THEN {} ELSE ({coverUrl} \ {0}) \cup gstored
    IN
    /\ files' = IF coverFailed THEN files
                ELSE RemoveFiles(dels, files) \cup stored
    /\ nextFile' = nextFile + Cardinality(stored)
    /\ posts' = IF committed THEN ps ELSE posts
    /\ images' = IF committed THEN is ELSE images
    /\ last' = [Response("update_post", IF committed THEN 200 ELSE 500,
                         post.id, user_id)
                  EXCEPT !.title = title, !.ids = ids, !.badIds = badIds,
                         !.fault = fault,
                         !.gone = <<IF committed THEN Cardinality(dels) ELSE 0, 0>>]
    /\ UNCHANGED <<backend, cloud, users, comments>>

\* PUT /api/posts/<post_id>
update_post(post_id, user_id) ==
    IF post_id \notin Ids(posts)
    THEN /\ last' = Response("update_post", 404, post_id, user_id)
         /\ Unwritten
    ELSE LET post == CHOOSE p \in posts : p.id = post_id IN
         IF ~IsOwner(user_id, post)
         THEN /\ last' = Response("update_post", 403, post_id, user_id)
              /\ Unwritten
         ELSE \E fields \in {<<NoStr, NoStr>>, <<"t2", "c2">>},
                 delete_cover \in BOOLEAN, cover \in FileEntries,
                 badIds \in BOOLEAN :
              \E ids \in IF badIds THEN {{}}
                         ELSE SUBSET (Ids(images) \cup {NextId(images)}),
                 gallery \in GalleryInputs(nextFile + NFiles(<<cover>>)) :
              \E o \in Outcomes(NFiles(<<cover>> \o gallery)) :
                 UpdateOwned(post, user_id, fields[1], fields[2], delete_cover,
                             cover, badIds, ids, gallery, o[1], o[2])

\* POST /api/posts/<post_id>/comments.  text = NoStr: the body has no
\* "text" key or a null one; user_id = 0 likewise.
add_comment(post_id, user_id, text, fault) ==
    LET new_comment == [id |-> NextId(comments), text |-> text,
                        user_id |-> user_id, post_id |-> post_id]
        cs == comments \cup {new_comment}
        committed == ~fault /\ ConstraintsOk(users, posts, images, cs)
    IN
    /\ Cardinality(comments) < MaxComments
    /\ comments' = IF committed THEN cs ELSE comments
    /\ last' = [Response("add_comment", IF committed THEN 201 ELSE 500, post_id, user_id)
                  EXCEPT !.newId = IF committed THEN new_comment.id ELSE 0,
                         !.fault = fault]
    /\ UNCHANGED <<backend, cloud, users, posts, images, files, nextFile>>

\* The permission check of delete_comment; parent is the comment's post.
MayDeleteComment(user_id, comment, parent) ==
    user_id \in {comment.user_id, parent.user_id}

\* DELETE /api/comments/<comment_id>?user_id=
delete_comment(comment_id, user_id, fault) ==
    IF comment_id \notin Ids(comments)
    THEN /\ last' = Response("delete_comment", 404, comment_id, user_id)
         /\ Unwritten
    ELSE LET comment == CHOOSE c \in comments : c.id = comment_id
             parents == {p \in posts : p.id = comment.post_id}
         IN
         IF parents = {}
         THEN \* comment.post is None: comment.post.user_id raises
              /\ last' = Response("delete_comment", 500, comment_id, user_id)
              /\ Unwritten
         ELSE IF MayDeleteComment(user_id, comment, CHOOSE p \in parents : TRUE)
         THEN LET cs == comments \ {comment}
                  committed == ~fault /\ ConstraintsOk(users, posts, images, cs)
              IN
              /\ comments' = IF committed THEN cs ELSE comments
              /\ last' = [Response("delete_comment", IF committed THEN 200 ELSE 500,
                                   comment_id, user_id) EXCEPT !.fault = fault]
              /\ UNCHANGED <<backend, cloud, users, posts, images, files, nextFile>>
         ELSE /\ last' = Response("delete_comment", 403, comment_id, user_id)
              /\ Unwritten

----------------------------------------------------------------------------
UserIdInputs == 0..Cardinality(Usernames)

\* What the requests read and write: the tables and the media store.
prog == <<users, posts, images, comments, files, nextFile>>

\* A behaviour serves at most MaxRequests requests, and ends with the first
\* request that changes neither a table nor the media store: the requests
\* after it would find what the requests before it left.
Ready == ~idle /\ served < MaxRequests

Count == served' = served + 1 /\ idle' = (prog' = prog)

GalleryChoices(cover) == GalleryInputs(nextFile + NFiles(<<cover>>))

\* The requests.  A registration here carries one password: no handler but
\* login reads the hash (NextAuth has both passwords).
Next ==
    \/ Ready /\ \E username \in Usernames, password \in {"pw1"}, fault \in BOOLEAN :
          register(username, password, fault) /\ Count
    \/ Ready /\ \E username \in Usernames, password \in {"pw1"} :
          login(username, password) /\ Count
    \/ Ready /\ \E post_id \in 1..MaxPosts :
          get_post_detail(post_id) /\ Count
    \/ Ready /\ \E title \in {NoStr, "t1"}, user_id \in UserIdInputs, cover \in FileEntries :
       \E gallery \in GalleryChoices(cover) :
       \E o \in Outcomes(NFiles(<<cover>> \o gallery)) :
          create_post(title, "c1", user_id, cover, gallery, o[1], o[2]) /\ Count
    \/ Ready /\ \E post_id \in 1..MaxPosts, user_id \in UserIdInputs :
          update_post(post_id, user_id) /\ Count
    \/ Ready /\ \E post_id \in 1..MaxPosts, user_id \in UserIdInputs, fault \in BOOLEAN :
          delete_post(post_id, user_id, fault) /\ Count
    \/ Ready /\ \E post_id \in 1..MaxPosts, user_id \in UserIdInputs, text \in {NoStr, "hi"},
          fault \in BOOLEAN :
          add_comment(post_id, user_id, text, fault) /\ Count
    \/ Ready /\ \E comment_id \in 1..MaxComments, user_id \in UserIdInputs, fault \in BOOLEAN :
          delete_comment(comment_id, user_id, fault) /\ Count

Spec == Init /\ [][Next]_vars

\* The requests that read or write the user table, on their own: no other
\* handler writes it, and register and login read nothing else.
NextAuth ==
    \/ Ready /\ \E username \in Usernames, password \in Passwords, fault \in BOOLEAN :
          register(username, password, fault) /\ Count
    \/ Ready /\ \E username \in Usernames, password \in Passwords :
          login(username, password) /\ Count

SpecAuth == Init /\ [][NextAuth]_vars

----------------------------------------------------------------------------
\* Properties.  A step of handler h is a step with last'.op = h; the
\* unprimed variables are the state the request found.

PostOf(id) == CHOOSE p \in posts : p.id = id

\* C1: when delete_post answers 200 the post is gone and no PostImage and no
\* Comment row with its post_id is left; and in no step does a post
\* disappear while a row of post_image or comment that was its dependent
\* stays.
C1_DeleteCascades ==
    [][ /\ (last'.op = "delete_post" /\ last'.status = 200) =>
             /\ last'.id \in Ids(posts)
             /\ last'.id \notin Ids(posts')
             /\ \A i \in images' : i.post_id # last'.id
             /\ \A c \in comments' : c.post_id # last'.id
        /\ \A p \in posts : p.id \notin Ids(posts') =>
             /\ \A i \in images : i.post_id = p.id => i \notin images'
             /\ \A c \in comments : c.post_id = p.id => c \notin comments'
      ]_vars

\* C1 witness: a delete_post answered 200 that removed at least one image
\* and at least one comment with the post.
C1_Witness ==
    /\ last.op = "delete_post"
    /\ last.status = 200
    /\ last.gone[1] >= 1
    /\ last.gone[2] >= 1

\* C2, as claimed: in every reachable state every post_id of post_image and
\* comment is the id of a post, and every user_id of post and comment is the
\* id of a user.
C2_ReferentialIntegrity ==
    /\ \A i \in images : i.post_id \in Ids(posts)
    /\ \A c \in comments : c.post_id \in Ids(posts) /\ c.user_id \in Ids(users)
    /\ \A p \in posts : p.user_id \in Ids(users)

\* C3: update_post and delete_post on an existing post with a user_id that
\* is absent or is not the post's user_id answer 403 and change no table and
\* no file.
C3_NonOwnerRefused ==
    [][ \A p \in posts :
          ( /\ last'.op \in {"update_post", "delete_post"}
            /\ last'.id = p.id
            /\ last'.uid # p.user_id )
          => /\ last'.status = 403
             /\ UNCHANGED <<users, posts, images, comments, files>>
      ]_vars

\* C3 witness: an update_post without user_id was refused on a post that has
\* a gallery image.
C3_Witness ==
    /\ last.op = "update_post"
    /\ last.status = 403
    /\ last.uid = 0
    /\ \E i \in images : i.post_id = last.id

\* C4, as claimed: delete_comment on an existing comment, when the commit
\* does not raise, deletes it and answers 200 if user_id is the comment's
\* author or the owner of its post, and otherwise answers 403 and keeps it.
C4_DeleteCommentAsClaimed ==
    [][ \A c \in comments :
          (last'.op = "delete_comment" /\ last'.id = c.id /\ ~last'.fault) =>
            IF \/ last'.uid = c.user_id
               \/ \E p \in posts : p.id = c.post_id /\ p.user_id = last'.uid
            THEN last'.status = 200 /\ c \notin comments'
            ELSE last'.status = 403 /\ c \in comments'
      ]_vars

\* C5: a register request for a username that a user row already has is
\* answered 400 and leaves the user table, hence the stored hash, as it was;
\* and no two user rows ever share a username.
C5_DuplicateRegistration ==
    [][ /\ (last'.op = "register" /\ \E u \in users : u.username = last'.name) =>
             last'.status = 400 /\ users' = users
        /\ \A u1 \in users', u2 \in users' : u1.username = u2.username => u1 = u2
      ]_vars

\* C5 witness: a second registration of a username, with another password
\* than the one whose hash is stored, was refused.
C5_Witness ==
    /\ last.op = "register"
    /\ last.status = 400
    /\ \E u \in users :
         u.username = last.name /\ ~check_password_hash(u.password, last.pw)

\* C6, as claimed: get_post_detail answers 404 when no post has the id and
\* 200 when one has.
C6_DetailAsClaimed ==
    last.op = "get_post_detail" =>
        last.status = IF last.id \in Ids(posts) THEN 200 ELSE 404

C8_CreateGallery ==
    [][ last'.op = "create_post" =>
          /\ last'.status \in {201, 500}
          /\ last'.status = 201 =>
               /\ \E p \in posts' : p.id = last'.newId /\ posts' = posts \cup {p}
               /\ last'.newId \notin Ids(posts)
               /\ images \subseteq images'
               /\ images' \ images = {i \in images' : i.post_id = last'.newId}
               /\ Cardinality(images' \ images) = last'.nfiles
               /\ {i.url : i \in images' \ images} = last'.stored
               /\ Cardinality(last'.stored) = last'.nfiles
               /\ last'.stored \subseteq files'
          /\ last'.status = 500 => posts' = posts /\ images' = images
      ]_vars

\* C8 witness: a create_post with two gallery files was answered 201.
C8_Witness ==
    /\ last.op = "create_post"
    /\ last.status = 201
    /\ last.nfiles = 2
    /\ Cardinality({i \in images : i.post_id = last.newId}) = 2

C10_RowsHaveFiles ==
    \A i \in images : i.url > 0 => i.url \in files

=============================================================================
